---- MODULE Spec2Model ----
(***************************************************************************)
(* Client-side session state machine of the HR EdTech front end:           *)
(*   - AuthContext.jsx  : AuthProvider (user, loading, login, logout,      *)
(*                        register*, getCurrentUser, role predicates)      *)
(*   - axiosClient      : request / response interceptors                  *)
(*   - AppRoutes        : role-gated router                                *)
(* Every asynchronous function is split at its await: the call sends a     *)
(* request (after the request interceptor), and the continuation runs      *)
(* when the response arrives, in one step together with the response       *)
(* interceptor (promise reactions run to completion in one task).          *)
(***************************************************************************)
EXTENDS Naturals, Integers, Sequences, FiniteSets, Bags, TLC

\* Largest number of requests in flight at once.
MaxPending == 1

\* null of JavaScript: localStorage.getItem of an absent key, the initial user.
NULL == "null"

\* ---------------------------------------------------------------- server
\* The accounts the remote collaborator knows, by login e-mail.
Emails == {"alex", "sam", "mia", "zed"}

\* The fixed role set of the application.
Roles == {"student", "recruiter", "mentor"}

\* POST /auth/login -> {access_token, role, user_id}. "zed" is an account
\* whose role is none of the application's roles.
LoginResponse(email) ==
  [access_token |-> "tok_" \o email,
   role |-> CASE email = "alex" -> "student"
              [] email = "sam"  -> "recruiter"
              [] email = "mia"  -> "mentor"
              [] OTHER          -> "admin",
   user_id |-> "u_" \o email]

Tokens == {LoginResponse(e).access_token : e \in Emails}

\* Authorization header of a request: absent, or "Bearer <token>".
NoAuth == [scheme |-> "none", token |-> NULL]
Bearer(token) == [scheme |-> "Bearer", token |-> token]

\* GET /auth/me -> {id, email, role, ...} of the account the bearer token
\* was issued to.
MeResponse(token) ==
  LET e == CHOOSE x \in Emails : LoginResponse(x).access_token = token
  IN  [id |-> LoginResponse(e).user_id, email |-> e, role |-> LoginResponse(e).role]

\* Failure statuses of the response envelope; 0 stands for "no response
\* received" (error.response undefined), 200 for a success.
Statuses == {400, 401, 403, 404, 422, 500}
Failures == Statuses \cup {0}

\* Routes a navigation can ask for; "/other" matches none of the routes.
Paths == {"/login", "/", "/student-dashboard", "/recruiter-dashboard",
          "/mentor-dashboard", "/other"}

\* ---------------------------------------------------------------- state
VARIABLES
  user,          \* useState(null): the identity {id, email, role}, or NoUser
  loading,       \* useState(true)
  localStorage,  \* [access_token, user_role], NULL when the key is absent
  mounted,       \* whether AuthProvider's start-up effect has run
  pending,       \* bag of requests in flight (any may complete next)
  location,      \* current route of the router
  href,          \* pending window.location.href assignment, or NULL
  delivered,     \* the last step: what was sent, or handed to the caller
  toast,         \* notification shown by the last step, or "none"
  isLoading,     \* useState(false) of LoginPage: a submitted login is pending
  validated      \* whether the persisted access_token was returned by a
                 \* successful login or confirmed by a successful auth/me
                 \* since the process started

vars == <<user, loading, localStorage, mounted, pending, location, href,
          delivered, toast, validated, isLoading>>

NoUser == [id |-> NULL, email |-> NULL, role |-> NULL]

\* No completion in this step.
NoDelivery == [kind |-> "step", op |-> "none", arg |-> "-", status |-> 200,
               rejected |-> FALSE, superseded |-> FALSE, follows |-> 200,
               interrupted |-> "no", auth |-> NoAuth]

\* Whether the step just before delivered a permission failure (403).
Follows == IF delivered.status = 403 THEN 403 ELSE 200

\* Whether the document was opened after a login was interrupted and is
\* still in its first restoration cycle, and after which write of the
\* login the interruption came.
Interrupted ==
  IF delivered.op = "interrupt" THEN delivered.arg
  ELSE IF delivered.kind = "sent" /\ delivered.arg = "restore"
  THEN delivered.interrupted
  ELSE "no"

\* A step that completes no request and sends none.
Step(op) == [kind |-> "step", op |-> op, arg |-> "-", status |-> 200,
             rejected |-> FALSE, superseded |-> FALSE, follows |-> Follows,
             interrupted |-> Interrupted, auth |-> NoAuth]

\* ------------------------------------------------------- localStorage
removeItem(ls, key) == [ls EXCEPT ![key] = NULL]
setItem(ls, key, value) == [ls EXCEPT ![key] = value]
Cleared == [access_token |-> NULL, user_role |-> NULL]

\* validated after a step that leaves ls in localStorage and in which the
\* server returned or confirmed the token vouched (NULL: none).
ValidatedAfter(ls, vouched) ==
  /\ ls.access_token # NULL
  /\ \/ vouched = ls.access_token
     \/ validated /\ ls.access_token = localStorage.access_token

\* ------------------------------------------------------- axiosClient
\* Request interceptor adding the header whether a token is persisted or not.
RequestInterceptor_AlwaysBearer(ls) == Bearer(ls.access_token)

\* Request interceptor: adds Authorization when a token is persisted.
RequestInterceptor(ls) ==
  IF ls.access_token # NULL THEN Bearer(ls.access_token) ELSE NoAuth

\* ResponseError with user_role forgotten in the 401 branch.
ResponseError_KeepsRole(status, ls, h) ==
  IF status = 401
  THEN [localStorage |-> removeItem(ls, "access_token"), href |-> "/login",
        toast |-> "Session expired. Please login again."]
  ELSE [localStorage |-> ls, href |-> h, toast |-> "An error occurred"]

\* ResponseError with 403 handled by the 401 branch.
ResponseError_403Clears(status, ls, h) ==
  IF status = 401 \/ status = 403
  THEN [localStorage |-> removeItem(removeItem(ls, "access_token"), "user_role"),
        href |-> "/login",
        toast |-> "Session expired. Please login again."]
  ELSE [localStorage |-> ls, href |-> h, toast |-> "An error occurred"]

\* ResponseError with 500 handled by the 401 branch.
ResponseError_500Clears(status, ls, h) ==
  IF status = 401 \/ status = 500
  THEN [localStorage |-> removeItem(removeItem(ls, "access_token"), "user_role"),
        href |-> "/login",
        toast |-> "Session expired. Please login again."]
  ELSE [localStorage |-> ls, href |-> h, toast |-> "An error occurred"]

\* ResponseError notifying of an expired session only.
ResponseError_SilentOtherwise(status, ls, h) ==
  IF status = 401
  THEN [localStorage |-> removeItem(removeItem(ls, "access_token"), "user_role"),
        href |-> "/login",
        toast |-> "Session expired. Please login again."]
  ELSE [localStorage |-> ls, href |-> h, toast |-> "none"]

\* Response interceptor, error branch: the effects on localStorage and
\* window.location.href and the toast shown, before the rejection is
\* passed on to the caller.
ResponseError(status, ls, h) ==
  IF status = 0
  THEN [localStorage |-> ls, href |-> h,
        toast |-> "Network error. Please check your connection."]
  ELSE IF status = 401
  THEN [localStorage |-> removeItem(removeItem(ls, "access_token"), "user_role"),
        href |-> "/login",
        toast |-> "Session expired. Please login again."]
  ELSE IF status = 403
  THEN [localStorage |-> ls, href |-> h, toast |-> "detail || Permission denied"]
  ELSE IF status = 422
  THEN [localStorage |-> ls, href |-> h, toast |-> "Invalid input data"]
  ELSE IF status = 500
  THEN [localStorage |-> ls, href |-> h,
        toast |-> "Server error. Please try again later."]
  ELSE [localStorage |-> ls, href |-> h, toast |-> "detail || An error occurred"]

\* A request in flight: what the server's answer depends on. arg is the
\* username of a login, the endpoint of a signup, and for GET /auth/me who
\* sent it (the start-up effect or a call); bearer is the token
\* GET /auth/me identifies the user by (the public endpoints ignore the
\* header). superseded records whether logout() was called since it was sent.
Request(op, arg) ==
  [op |-> op, arg |-> arg,
   bearer |-> IF op = "me" THEN RequestInterceptor(localStorage).token ELSE NULL,
   superseded |-> FALSE]

\* A call that ran up to its await: the request passed the request
\* interceptor and left with the header recorded in auth.
Sent(req) == [kind |-> "sent", op |-> req.op, arg |-> req.arg, status |-> 200,
              rejected |-> FALSE, superseded |-> FALSE, follows |-> Follows,
              interrupted |-> Interrupted,
              auth |-> RequestInterceptor(localStorage)]

Send(req) == pending (+) SetToBag({req})
Remove(req) == pending (-) SetToBag({req})
InFlight == BagToSet(pending)

\* What the continuation of request req hands to its caller.
Completion(req, status, rejected) ==
  [kind |-> "settled", op |-> req.op, arg |-> req.arg, status |-> status,
   rejected |-> rejected, superseded |-> req.superseded, follows |-> Follows,
   interrupted |-> Interrupted, auth |-> NoAuth]

\* ------------------------------------------------------- AuthContext
\* dashboardRoute with the mentor case missing.
dashboardRoute_NoMentor(role) ==
  CASE role = "student"   -> "/student-dashboard"
    [] role = "recruiter" -> "/recruiter-dashboard"
    [] OTHER              -> "/"

dashboardRoute(role) ==
  CASE role = "student"   -> "/student-dashboard"
    [] role = "recruiter" -> "/recruiter-dashboard"
    [] role = "mentor"    -> "/mentor-dashboard"
    [] OTHER              -> "/"

\* isAuthenticated looking at the identity only.
isAuthenticated_IdentityOnly == user # NoUser

isAuthenticated == user # NoUser /\ localStorage.access_token # NULL
isStudent   == user.role = "student"
isRecruiter == user.role = "recruiter"
isMentor    == user.role = "mentor"

\* The start-up effect asking for the user when either key is persisted.
useEffect_EitherKey ==
  /\ ~mounted
  /\ mounted' = TRUE
  /\ IF localStorage.access_token # NULL \/ localStorage.user_role # NULL
     THEN /\ pending' = Send(Request("me", "restore"))
          /\ delivered' = Sent(Request("me", "restore"))
          /\ UNCHANGED loading
     ELSE /\ loading' = FALSE
          /\ delivered' = Step("useEffect")
          /\ UNCHANGED pending
  /\ toast' = "none"
  /\ UNCHANGED <<user, localStorage, location, href, validated>>

\* The start-up effect of AuthProvider; its getCurrentUser() call sends
\* GET /auth/me.
useEffect ==
  /\ ~mounted
  /\ mounted' = TRUE
  /\ IF localStorage.access_token # NULL /\ localStorage.user_role # NULL
     THEN /\ pending' = Send(Request("me", "restore"))
          /\ delivered' = Sent(Request("me", "restore"))
          /\ UNCHANGED loading
     ELSE /\ loading' = FALSE
          /\ delivered' = Step("useEffect")
          /\ UNCHANGED pending
  /\ toast' = "none"
  /\ UNCHANGED <<user, localStorage, location, href, validated>>

\* The consumers of the context are rendered by AppRoutes, which renders
\* only the loading view while loading is true: an operation can be
\* invoked once the start-up effect has run and loading is false.
CanCall == mounted /\ ~loading

CanSend == CanCall /\ BagCardinality(pending) < MaxPending

\* getCurrentUser() showing the loading view while it waits.
getCurrentUser_SetsLoading ==
  /\ CanSend
  /\ pending' = Send(Request("me", "call"))
  /\ delivered' = Sent(Request("me", "call"))
  /\ toast' = "none"
  /\ loading' = TRUE
  /\ UNCHANGED <<user, localStorage, mounted, location, href, validated>>

\* getCurrentUser() called through the context value.
getCurrentUser ==
  /\ CanSend
  /\ pending' = Send(Request("me", "call"))
  /\ delivered' = Sent(Request("me", "call"))
  /\ toast' = "none"
  /\ UNCHANGED <<user, loading, localStorage, mounted, location, href, validated>>

\* getCurrentUser keeping the user_role it finds persisted.
getCurrentUserResolved_KeepsRole(req) ==
  LET userData == MeResponse(req.bearer)
  IN  /\ req.op = "me"
      /\ req.bearer # NULL
      /\ user' = userData
      /\ loading' = FALSE
      /\ pending' = Remove(req)
      /\ delivered' = Completion(req, 200, FALSE)
      /\ toast' = "none"
      /\ validated' = ValidatedAfter(localStorage, req.bearer)
      /\ UNCHANGED <<localStorage, mounted, location, href>>

\* getCurrentUser after the await: try branch, then finally.
getCurrentUserResolved(req) ==
  LET userData == MeResponse(req.bearer)
  IN  /\ req.op = "me"
      /\ req.bearer # NULL
      /\ user' = userData
      /\ localStorage' = setItem(localStorage, "user_role", userData.role)
      /\ loading' = FALSE
      /\ pending' = Remove(req)
      /\ delivered' = Completion(req, 200, FALSE)
      /\ toast' = "none"
      /\ validated' = ValidatedAfter(localStorage', req.bearer)
      /\ UNCHANGED <<mounted, location, href>>

\* getCurrentUser without its finally block on the failure path.
getCurrentUserRejected_NoFinally(req, status) ==
  LET e == ResponseError(status, localStorage, href)
  IN  /\ req.op = "me"
      /\ localStorage' =
           removeItem(removeItem(e.localStorage, "access_token"), "user_role")
      /\ user' = NoUser
      /\ href' = e.href
      /\ toast' = e.toast
      /\ pending' = Remove(req)
      /\ delivered' = Completion(req, status, FALSE)
      /\ validated' = ValidatedAfter(localStorage', NULL)
      /\ UNCHANGED <<loading, mounted, location>>

\* getCurrentUser after the await: response interceptor, catch, finally.
\* The error is swallowed: the call resolves.
getCurrentUserRejected(req, status) ==
  LET e == ResponseError(status, localStorage, href)
  IN  /\ req.op = "me"
      /\ localStorage' =
           removeItem(removeItem(e.localStorage, "access_token"), "user_role")
      /\ user' = NoUser
      /\ loading' = FALSE
      /\ href' = e.href
      /\ toast' = e.toast
      /\ pending' = Remove(req)
      /\ delivered' = Completion(req, status, FALSE)
      /\ validated' = ValidatedAfter(localStorage', NULL)
      /\ UNCHANGED <<mounted, location>>

\* login(email, password) up to its await.
login(email) ==
  /\ CanSend
  /\ pending' = Send(Request("login", email))
  /\ delivered' = Sent(Request("login", email))
  /\ toast' = "none"
  /\ UNCHANGED <<user, loading, localStorage, mounted, location, href, validated>>

\* login after the await, success.
loginResolved(req) ==
  LET data == LoginResponse(req.arg)
  IN  /\ req.op = "login"
      /\ localStorage' = setItem(setItem(localStorage, "access_token", data.access_token),
                                 "user_role", data.role)
      /\ user' = [id |-> data.user_id, email |-> req.arg, role |-> data.role]
      /\ toast' = "Login successful!"
      /\ location' = dashboardRoute(data.role)
      /\ pending' = Remove(req)
      /\ delivered' = Completion(req, 200, FALSE)
      /\ validated' = ValidatedAfter(localStorage', data.access_token)
      /\ UNCHANGED <<loading, mounted, href>>

\* loginRejected with a catch block that also resets the identity.
loginRejected_ClearsUser(req, status) ==
  LET e == ResponseError(status, localStorage, href)
  IN  /\ req.op = "login"
      /\ localStorage' = e.localStorage
      /\ user' = NoUser
      /\ href' = e.href
      /\ toast' = e.toast
      /\ pending' = Remove(req)
      /\ delivered' = Completion(req, status, TRUE)
      /\ validated' = ValidatedAfter(localStorage', NULL)
      /\ UNCHANGED <<loading, mounted, location>>

\* login after the await, failure: response interceptor, then catch/rethrow.
loginRejected(req, status) ==
  LET e == ResponseError(status, localStorage, href)
  IN  /\ req.op = "login"
      /\ localStorage' = e.localStorage
      /\ href' = e.href
      /\ toast' = e.toast
      /\ pending' = Remove(req)
      /\ delivered' = Completion(req, status, TRUE)
      /\ validated' = ValidatedAfter(localStorage', NULL)
      /\ UNCHANGED <<user, loading, mounted, location>>

\* registerStudent / registerRecruiter / registerMentor up to the await.
register(kind) ==
  /\ CanSend
  /\ pending' = Send(Request("signup", kind))
  /\ delivered' = Sent(Request("signup", kind))
  /\ toast' = "none"
  /\ UNCHANGED <<user, loading, localStorage, mounted, location, href, validated>>

registerStudent   == register("student")
registerRecruiter == register("recruiter")
registerMentor    == register("mentor")

\* register* after the await, success.
registerResolved(req) ==
      /\ req.op = "signup"
      /\ toast' = "Registration successful! Please login."
      /\ location' = "/login"
      /\ pending' = Remove(req)
      /\ delivered' = Completion(req, 200, FALSE)
      /\ UNCHANGED <<user, loading, localStorage, mounted, href, validated>>

\* register* navigating to /login after a failure too.
registerRejected_Navigates(req, status) ==
  LET e == ResponseError(status, localStorage, href)
  IN  /\ req.op = "signup"
      /\ localStorage' = e.localStorage
      /\ href' = e.href
      /\ toast' = e.toast
      /\ location' = "/login"
      /\ pending' = Remove(req)
      /\ delivered' = Completion(req, status, TRUE)
      /\ validated' = ValidatedAfter(localStorage', NULL)
      /\ UNCHANGED <<user, loading, mounted>>

\* register* after the await, failure.
registerRejected(req, status) ==
  LET e == ResponseError(status, localStorage, href)
  IN  /\ req.op = "signup"
      /\ localStorage' = e.localStorage
      /\ href' = e.href
      /\ toast' = e.toast
      /\ pending' = Remove(req)
      /\ delivered' = Completion(req, status, TRUE)
      /\ validated' = ValidatedAfter(localStorage', NULL)
      /\ UNCHANGED <<user, loading, mounted, location>>

\* The bag b with every request marked as sent before a logout.
Supersede(b) ==
  LET mark(r) == [r EXCEPT !.superseded = TRUE]
      marked == {mark(r) : r \in BagToSet(b)}
  IN  [m \in marked |->
         (IF m \in DOMAIN b THEN b[m] ELSE 0)
         + (IF [m EXCEPT !.superseded = FALSE] \in DOMAIN b
            THEN b[[m EXCEPT !.superseded = FALSE]] ELSE 0)]

\* logout with user_role left in localStorage.
logout_KeepsRole ==
  /\ CanCall
  /\ localStorage' = removeItem(localStorage, "access_token")
  /\ user' = NoUser
  /\ location' = "/"
  /\ toast' = "Logged out successfully!"
  /\ pending' = Supersede(pending)
  /\ delivered' = Step("logout")
  /\ validated' = ValidatedAfter(localStorage', NULL)
  /\ UNCHANGED <<loading, mounted, href>>

\* What logout() reads and writes: identity, storage and the route.
Session == [user |-> user, localStorage |-> localStorage,
            location |-> location]

\* logout navigating to / only when somebody was signed in, to /login
\* otherwise.
LoggedOut_EntryWhenNobody(s) ==
  [user |-> NoUser,
   localStorage |-> removeItem(removeItem(s.localStorage, "access_token"),
                               "user_role"),
   location |-> IF s.user = NoUser THEN "/login" ELSE "/"]

\* The session logout() leaves when called in session s.
LoggedOut(s) ==
  [user |-> NoUser,
   localStorage |-> removeItem(removeItem(s.localStorage, "access_token"),
                               "user_role"),
   location |-> "/"]

\* logout(): synchronous. Requests in flight stay in flight.
logout ==
  /\ CanCall
  /\ localStorage' = LoggedOut(Session).localStorage
  /\ user' = LoggedOut(Session).user
  /\ location' = LoggedOut(Session).location
  /\ toast' = "Logged out successfully!"
  /\ pending' = Supersede(pending)
  /\ delivered' = Step("logout")
  /\ validated' = ValidatedAfter(localStorage', NULL)
  /\ UNCHANGED <<loading, mounted, href>>

\* ------------------------------------------------------- AppRoutes
View(v) == [kind |-> "view", to |-> v]
Navigate(p) == [kind |-> "redirect", to |-> p]

Dashboards == {"student-dashboard", "recruiter-dashboard", "mentor-dashboard"}

\* The /login route redirecting whoever asks for it.
LoginRoute_AlwaysRedirects == Navigate("/")

\* The /login route without the authentication check.
LoginRoute_NoAuthCheck == View("login")

\* <Route path="/login">.
LoginRoute ==
  IF ~isAuthenticated THEN View("login") ELSE Navigate("/")

\* The student dashboard route without the role check.
StudentRoute_NoRoleCheck ==
  IF isAuthenticated
  THEN View("student-dashboard") ELSE Navigate("/login")

\* <Route path="/student-dashboard">.
StudentRoute ==
  IF isAuthenticated /\ isStudent
  THEN View("student-dashboard") ELSE Navigate("/login")

\* <Route path="/recruiter-dashboard">.
RecruiterRoute ==
  IF isAuthenticated /\ isRecruiter
  THEN View("recruiter-dashboard") ELSE Navigate("/login")

\* <Route path="/mentor-dashboard">.
MentorRoute ==
  IF isAuthenticated /\ isMentor
  THEN View("mentor-dashboard") ELSE Navigate("/login")

\* The / route sending every authenticated user to the student dashboard.
RootRoute_AlwaysStudent ==
  IF isAuthenticated THEN Navigate("/student-dashboard")
  ELSE Navigate("/login")

\* <Route path="/">.
RootRoute ==
  IF isAuthenticated
  THEN IF isStudent THEN Navigate("/student-dashboard")
       ELSE IF isRecruiter THEN Navigate("/recruiter-dashboard")
       ELSE IF isMentor THEN Navigate("/mentor-dashboard")
       ELSE Navigate("/login")
  ELSE Navigate("/login")

\* The catch-all route rendering a page of its own.
CatchAllRoute_NotFound == View("not-found")

\* <Route path="*">.
CatchAllRoute == Navigate("/")

\* The element <Routes> renders for a path.
Routes(path) ==
  CASE path = "/login"               -> LoginRoute
    [] path = "/student-dashboard"   -> StudentRoute
    [] path = "/recruiter-dashboard" -> RecruiterRoute
    [] path = "/mentor-dashboard"    -> MentorRoute
    [] path = "/"                    -> RootRoute
    [] OTHER                         -> CatchAllRoute

\* AppRoutes showing the loading view at / only.
AppRoutes_SpinnerOnlyAtRoot(path) ==
  IF loading /\ path = "/" THEN View("loading") ELSE Routes(path)

\* AppRoutes without the loading check.
AppRoutes_NoLoadingGuard(path) == Routes(path)

\* The element AppRoutes renders for a path.
AppRoutes(path) ==
  IF loading THEN View("loading") ELSE Routes(path)

\* What is on screen.
Rendered == AppRoutes(location)

\* The chain of <Navigate replace/> redirects that starts when path is
\* requested, in the current session: where it ends and what is rendered
\* there, or "loop" when a redirect leads back to a route of the chain.
RECURSIVE Follow(_, _)
Follow(path, visited) ==
  LET element == AppRoutes(path)
  IN  IF element.kind = "view"
      THEN [path |-> path, view |-> element.to]
      ELSE IF element.to \in visited \cup {path}
      THEN [path |-> element.to, view |-> "loop"]
      ELSE Follow(element.to, visited \cup {path})

Resolve(path) == Follow(path, {})

\* A rendered <Navigate replace/> takes effect.
RouterRedirect ==
  /\ Rendered.kind = "redirect"
  /\ location' = Rendered.to
  /\ delivered' = Step("navigate")
  /\ toast' = "none"
  /\ UNCHANGED <<user, loading, localStorage, mounted, pending, href, validated>>

\* ------------------------------------------------------- process restarts
\* A fresh document: React state is lost, localStorage survives, requests
\* of the old document are abandoned.
FreshDocument(path) ==
  /\ user' = NoUser
  /\ loading' = TRUE
  /\ mounted' = FALSE
  /\ pending' = EmptyBag
  /\ location' = path
  /\ href' = NULL
  /\ toast' = "none"
  /\ validated' = FALSE
  /\ UNCHANGED localStorage

\* The navigation started by window.location.href = ... commits.
HrefReload ==
  /\ href # NULL
  /\ FreshDocument(href)
  /\ delivered' = Step("reload")

\* The user reopens the application at some path.
Restart(path) ==
  /\ mounted
  /\ href = NULL
  /\ FreshDocument(path)
  /\ delivered' = Step("restart")

\* The writes of a successful login, in order.
LoginWrites == <<"access_token", "user_role">>

\* The document goes away (crash, tab closed, navigation) while the
\* continuation of a successful login runs, after the first or after the
\* first two of its writes to localStorage, and is opened again at the
\* same path.
loginInterrupted(req, last) ==
  LET data == LoginResponse(req.arg)
      first == setItem(localStorage, "access_token", data.access_token)
  IN  /\ req.op = "login"
      /\ mounted
      /\ href = NULL
      /\ localStorage' = IF LoginWrites[last] = "access_token" THEN first
                         ELSE setItem(first, "user_role", data.role)
      /\ user' = NoUser
      /\ loading' = TRUE
      /\ mounted' = FALSE
      /\ pending' = EmptyBag
      /\ href' = NULL
      /\ toast' = "none"
      /\ validated' = FALSE
      /\ delivered' = [Step("interrupt") EXCEPT !.arg = LoginWrites[last]]
      /\ UNCHANGED location

\* The steps that open a new document.
NewDocument == {"restart", "reload", "interrupt"}

\* ------------------------------------------------------- specification
Init ==
  /\ user = NoUser
  /\ loading = TRUE
  /\ localStorage = Cleared
  /\ mounted = FALSE
  /\ pending = EmptyBag
  /\ location = "/"
  /\ href = NULL
  /\ delivered = NoDelivery
  /\ toast = "none"
  /\ validated = FALSE
  /\ isLoading = FALSE

Next ==
  \/ useEffect /\ UNCHANGED isLoading
  \/ getCurrentUser /\ UNCHANGED isLoading
  \/ \E e \in Emails : login(e) /\ UNCHANGED isLoading
  \/ \E req \in InFlight, last \in DOMAIN LoginWrites : loginInterrupted(req, last) /\ UNCHANGED isLoading
  \/ registerStudent /\ UNCHANGED isLoading
  \/ registerRecruiter /\ UNCHANGED isLoading
  \/ registerMentor /\ UNCHANGED isLoading
  \/ logout /\ UNCHANGED isLoading
  \/ \E req \in InFlight : getCurrentUserResolved(req) /\ UNCHANGED isLoading
  \/ \E req \in InFlight, s \in Failures : getCurrentUserRejected(req, s) /\ UNCHANGED isLoading
  \/ \E req \in InFlight : loginResolved(req) /\ UNCHANGED isLoading
  \/ \E req \in InFlight, s \in Failures : loginRejected(req, s) /\ UNCHANGED isLoading
  \/ \E req \in InFlight : registerResolved(req) /\ UNCHANGED isLoading
  \/ \E req \in InFlight, s \in Failures : registerRejected(req, s) /\ UNCHANGED isLoading
  \/ RouterRedirect /\ UNCHANGED isLoading
  \/ HrefReload /\ UNCHANGED isLoading
  \/ \E p \in Paths : Restart(p) /\ UNCHANGED isLoading

Spec == Init /\ [][Next]_vars

\* ------------------------------------------ specification, liveness
\* The restoration request is answered, with a success or a failure.
RestoreCompletes ==
  \E req \in InFlight :
    /\ req.arg = "restore"
    /\ \/ getCurrentUserResolved(req)
       \/ \E s \in Failures : getCurrentUserRejected(req, s)
    /\ UNCHANGED isLoading

\* React runs the start-up effect once the provider is mounted, and every
\* GET /auth/me of a restoration is taken to be answered: a document that
\* is closed and reopened before the answer, again and again, is not
\* considered.
SpecRestoration ==
  /\ Init /\ [][Next]_vars
  /\ WF_vars(useEffect /\ UNCHANGED isLoading)
  /\ SF_vars(RestoreCompletes)

\* ------------------------------------- specification, concurrent calls
\* The context value hands login and getCurrentUser to every consumer and
\* neither waits for a request already in flight: under SpecConcurrent one
\* more request than under Spec can be in flight.
MaxConcurrent == MaxPending + 1

CanSendConcurrently == CanCall /\ BagCardinality(pending) < MaxConcurrent

\* A call that runs up to its await and sends req.
Await(req) ==
  /\ pending' = Send(req)
  /\ delivered' = Sent(req)
  /\ toast' = "none"
  /\ UNCHANGED <<user, loading, localStorage, mounted, location, href, validated>>

getCurrentUserConcurrent ==
  CanSendConcurrently /\ Await(Request("me", "call"))

loginConcurrent(email) ==
  CanSendConcurrently /\ Await(Request("login", email))

NextConcurrent ==
  \/ useEffect /\ UNCHANGED isLoading
  \/ getCurrentUserConcurrent /\ UNCHANGED isLoading
  \/ \E e \in Emails : loginConcurrent(e) /\ UNCHANGED isLoading
  \/ logout /\ UNCHANGED isLoading
  \/ \E req \in InFlight : getCurrentUserResolved(req) /\ UNCHANGED isLoading
  \/ \E req \in InFlight, s \in Failures : getCurrentUserRejected(req, s) /\ UNCHANGED isLoading
  \/ \E req \in InFlight : loginResolved(req) /\ UNCHANGED isLoading
  \/ \E req \in InFlight, s \in Failures : loginRejected(req, s) /\ UNCHANGED isLoading
  \/ RouterRedirect /\ UNCHANGED isLoading
  \/ HrefReload /\ UNCHANGED isLoading

SpecConcurrent == Init /\ [][NextConcurrent]_vars

\* ------------------------------------------------------- session states
\* ------------------------------------------- specification, LoginPage
\* Button with a disabled attribute that ignores loading.
ButtonDisabled_IgnoresLoading(disabled, loadingProp) == disabled

\* Button: the disabled attribute of the rendered button.
ButtonDisabled(disabled, loadingProp) == disabled \/ loadingProp

\* Button.handleClick: whether a click gets to the onClick handler.
handleClick(disabled, loadingProp) == ~loadingProp /\ ~disabled

\* LoginPage is on screen.
LoginPageMounted == Rendered = View("login")

\* The form is submitted with its Sign In button (which gets no disabled
\* prop, and isLoading as loading): onSubmit up to its await. Nothing in
\* the context makes a login wait for one in flight.
onSubmit(email) ==
  /\ LoginPageMounted
  /\ ~ButtonDisabled(FALSE, isLoading)
  /\ CanSendConcurrently
  /\ Await(Request("login", email))
  /\ isLoading' = TRUE

\* onSubmit after the await: login resolved, then finally.
onSubmitResolved(req) ==
  /\ loginResolved(req)
  /\ isLoading' = FALSE

\* onSubmit after the await: login rejected, catch, then finally.
onSubmitRejected(req, status) ==
  /\ loginRejected(req, status)
  /\ isLoading' = FALSE

\* logout() comes from a dashboard: LoginPage has no control for it.
logoutFromDashboard ==
  /\ Rendered.kind = "view" /\ Rendered.to \in Dashboards
  /\ logout
  /\ UNCHANGED isLoading

\* Under SpecLoginPage every login is a submission of the form.
NextLoginPage ==
  \/ useEffect /\ UNCHANGED isLoading
  \/ \E e \in Emails : onSubmit(e)
  \/ \E req \in InFlight : onSubmitResolved(req)
  \/ \E req \in InFlight, s \in Failures : onSubmitRejected(req, s)
  \/ \E req \in InFlight : getCurrentUserResolved(req) /\ UNCHANGED isLoading
  \/ \E req \in InFlight, s \in Failures :
        getCurrentUserRejected(req, s) /\ UNCHANGED isLoading
  \/ logoutFromDashboard
  \/ RouterRedirect /\ UNCHANGED isLoading
  \/ HrefReload /\ isLoading' = FALSE
  \/ \E p \in Paths : Restart(p) /\ isLoading' = FALSE

SpecLoginPage == Init /\ [][NextLoginPage]_vars

TokenPersisted == localStorage.access_token # NULL
RolePersisted == localStorage.user_role # NULL

\* The Anonymous session: no identity, nothing persisted.
Anonymous == user = NoUser /\ ~TokenPersisted /\ ~RolePersisted

\* The last step was the continuation of a request of kind op.
Settled(op) == delivered.kind = "settled" /\ delivered.op = op


\* The state of the session: Unknown before the start-up effect has run,
\* Restoring while loading, then Authenticated(role) or Anonymous as
\* isAuthenticated() tells.
SessionState ==
  IF ~mounted THEN "Unknown"
  ELSE IF loading THEN "Restoring"
  ELSE IF isAuthenticated THEN "Authenticated:" \o user.role
  ELSE "Anonymous"

Authenticated == {"Authenticated:" \o LoginResponse(e).role : e \in Emails}

\* Where a request ends for a user whose role is role: the role's default
\* route with the role's dashboard on screen.
OwnDashboard(role) ==
  [path |-> dashboardRoute(role), view |-> role \o "-dashboard"]

\* Where a request ends for a visitor: the login view at /login.
LoginView == [path |-> "/login", view |-> "login"]

\* ------------------------------------------------------- claims

\* C1: if logout() is called while a login request is pending and that
\* login later resolves successfully, the session is Anonymous afterwards:
\* the late result is discarded.
C1_LateLoginDiscarded ==
  [][(/\ Anonymous
      /\ delivered'.kind = "settled" /\ delivered'.op = "login"
      /\ delivered'.status = 200 /\ delivered'.superseded)
     => Anonymous']_vars

\* C2: right after logout(), with no request in flight, the session is
\* Anonymous: identity null, neither access_token nor user_role persisted.
C2_LogoutEndsAnonymous ==
  (delivered.op = "logout" /\ pending = EmptyBag) => Anonymous

C2_Witness ==
  /\ delivered.op = "logout" /\ pending = EmptyBag
  /\ Anonymous /\ location = "/" /\ toast = "Logged out successfully!"

\* C3: a 401 response to any request (login, auth/me, signup), in any
\* session state, removes access_token and user_role and starts a
\* navigation to /login, where the fresh document then is.
C3_UnauthorizedClears ==
  /\ (delivered.kind = "settled" /\ delivered.status = 401)
       => (~TokenPersisted /\ ~RolePersisted /\ href = "/login")
  /\ delivered.op = "reload" => (location = "/login" /\ href = NULL)

C3_Witness ==
  /\ Settled("signup") /\ delivered.status = 401
  /\ user # NoUser /\ ~TokenPersisted /\ ~RolePersisted /\ href = "/login"

\* C4: no state in which the caller has observed a 401 rejection has a
\* non-null identity.
C4_IdentityClearedBefore401Propagates ==
  ~(delivered.rejected /\ delivered.status = 401 /\ user # NoUser)

\* C5: from process start until a failing restoration auth/me has been
\* handled the loading view is rendered, never a dashboard, and once the
\* failure is handled the session is Anonymous.
C5_NoFlashOnFailedRestore ==
  /\ (\/ ~mounted
      \/ \E r \in InFlight : r.op = "me" /\ r.arg = "restore")
       => Rendered = View("loading")
  /\ (Settled("me") /\ delivered.status # 200)
       => (Anonymous /\ ~loading /\ Rendered.to \notin Dashboards)

C5_Witness ==
  /\ Settled("me") /\ delivered.arg = "restore" /\ delivered.status = 500
  /\ Anonymous /\ ~loading /\ location = "/student-dashboard"

\* C6 as stated: a failed login leaves identity, access_token and
\* user_role as they were, in every session state.
C6_FailedLoginChangesNothing ==
  [][(delivered'.kind = "settled" /\ delivered'.op = "login"
      /\ delivered'.status # 200)
     => UNCHANGED <<user, localStorage>>]_vars

\* C6 amended: a failed login is propagated to the caller and leaves the
\* identity as it was; access_token and user_role are as they were unless
\* the status is 401, and then both are removed.
C6_FailedLoginAmended ==
  [][(delivered'.kind = "settled" /\ delivered'.op = "login"
      /\ delivered'.status # 200)
     => /\ delivered'.rejected
        /\ user' = user
        /\ localStorage' = IF delivered'.status = 401 THEN Cleared
                           ELSE localStorage]_vars

C6_Witness ==
  /\ Settled("login") /\ delivered.rejected /\ delivered.status = 401
  /\ user = [id |-> "u_alex", email |-> "alex", role |-> "student"]
  /\ localStorage = Cleared /\ href = "/login"

\* C7: a successful login answered {access_token: t, role: r, user_id: u}
\* leaves identity {id: u, email, role: r}, access_token = t, user_role = r
\* and, for r one of the three roles, the router at r's dashboard.
C7_LoginSuccess ==
  (Settled("login") /\ delivered.status = 200) =>
    LET data == LoginResponse(delivered.arg)
    IN  /\ user = [id |-> data.user_id, email |-> delivered.arg, role |-> data.role]
        /\ localStorage.access_token = data.access_token
        /\ localStorage.user_role = data.role
        /\ isAuthenticated
        /\ data.role = "student" => location = "/student-dashboard"
        /\ data.role = "recruiter" => location = "/recruiter-dashboard"
        /\ data.role = "mentor" => location = "/mentor-dashboard"

C7_Witness ==
  /\ Settled("login") /\ delivered.status = 200 /\ delivered.arg = "mia"
  /\ user = [id |-> "u_mia", email |-> "mia", role |-> "mentor"]
  /\ localStorage = [access_token |-> "tok_mia", user_role |-> "mentor"]
  /\ location = "/mentor-dashboard"

\* C8: identity is non-null exactly when a validated token exists.
C8_IdentityIffValidatedToken ==
  (user # NoUser) <=> (TokenPersisted /\ validated)

\* C9: when identity is non-null and restoration is not in progress, the
\* persisted user_role equals identity.role.
C9_RoleHintMatchesIdentity ==
  (user # NoUser /\ ~loading) => localStorage.user_role = user.role

C11_OtherDashboardEndsAtOwn ==
  (~loading /\ isAuthenticated /\ user.role \in Roles)
    => \A r \in Roles \ {user.role} :
         /\ AppRoutes(dashboardRoute(r)).kind = "redirect"
         /\ Resolve(dashboardRoute(r)) = OwnDashboard(user.role)

C11_Witness ==
  /\ delivered.op = "navigate" /\ location = "/login"
  /\ ~loading /\ isAuthenticated /\ isRecruiter
  /\ Resolve(location) = [path |-> "/recruiter-dashboard",
                          view |-> "recruiter-dashboard"]

\* C12: in an anonymous session a request for any of the three dashboards
\* is redirected to /login, and the login view is what is finally rendered.
C12_AnonymousDashboardEndsAtLogin ==
  (~loading /\ Anonymous)
    => \A r \in Roles :
         /\ AppRoutes(dashboardRoute(r)) = Navigate("/login")
         /\ Resolve(dashboardRoute(r)) = LoginView

C12_Witness ==
  /\ mounted /\ ~loading /\ Anonymous
  /\ location = "/mentor-dashboard"
  /\ Rendered = Navigate("/login")

\* C13: in an authenticated session the login view is never rendered, a
\* request for /login is redirected, and for a user with one of the three
\* roles it ends at the user's own default dashboard.
C13_AuthenticatedNeverSeesLogin ==
  (~loading /\ isAuthenticated)
    => /\ Rendered # View("login")
       /\ AppRoutes("/login").kind = "redirect"
       /\ user.role \in Roles => Resolve("/login") = OwnDashboard(user.role)

C13_Witness ==
  /\ ~loading /\ isAuthenticated /\ isMentor
  /\ location = "/login"
  /\ Rendered = Navigate("/")

\* C14 as stated: every role has a default route, and a request for the
\* default route of an authenticated user whose role is none of the three
\* ends at the public entry route with the login view on screen.
C14_UnrecognizedRoleEndsAtEntry ==
  /\ \A e \in Emails : dashboardRoute(LoginResponse(e).role) \in Paths
  /\ (~loading /\ isAuthenticated /\ user.role \notin Roles)
       => Resolve(dashboardRoute(user.role)) = LoginView

\* C15: logout() called in the session a logout() left gives that session
\* again: identity null, neither key persisted, the route / from which an
\* anonymous visitor is taken to the login view; this from every session
\* in which logout() can be called.
C15_LogoutIdempotent ==
  /\ CanCall =>
       /\ LoggedOut(LoggedOut(Session)) = LoggedOut(Session)
       /\ LoggedOut(Session).user = NoUser
       /\ LoggedOut(Session).localStorage = Cleared
       /\ LoggedOut(Session).location = "/"
  /\ delivered.op = "logout" =>
       /\ LoggedOut(Session) = Session
       /\ Resolve(location) = LoginView

C15_Witness ==
  /\ delivered.op = "logout" /\ delivered.follows = 200
  /\ Session = [user |-> NoUser, localStorage |-> Cleared, location |-> "/"]
  /\ LoggedOut(Session) = Session
  /\ toast = "Logged out successfully!"

\* C16: isAuthenticated() is true exactly when the identity is non-null
\* and an access_token is persisted; with either one missing it is false.
C16_AuthenticatedIffIdentityAndToken ==
  /\ user = NoUser => ~isAuthenticated
  /\ ~TokenPersisted => ~isAuthenticated
  /\ (user # NoUser /\ TokenPersisted) => isAuthenticated

C16_Witness ==
  /\ user # NoUser /\ isStudent /\ ~TokenPersisted
  /\ ~isAuthenticated
  /\ ~loading /\ location = "/student-dashboard"
  /\ Rendered = Navigate("/login")

\* C17: while loading is true AppRoutes renders the loading view for every
\* route, so that no redirect is made and neither the login view nor a
\* dashboard is rendered.
C17_LoadingRendersOnlyLoadingView ==
  loading =>
    /\ \A p \in Paths : AppRoutes(p) = View("loading")
    /\ Rendered.kind # "redirect"
    /\ Rendered.to \notin Dashboards \cup {"login"}
    /\ ~ENABLED RouterRedirect

C17_Witness ==
  /\ loading /\ mounted
  /\ delivered.kind = "sent" /\ delivered.arg = "restore"
  /\ user = NoUser /\ TokenPersisted
  /\ location = "/recruiter-dashboard"
  /\ Rendered = View("loading")

\* C18: the start-up effect sends GET /auth/me exactly when access_token
\* and user_role are both persisted; when that request succeeds the
\* identity is the returned user and user_role is the returned role; when
\* it fails access_token, user_role and identity are all cleared.
C18_RestoreAtStart ==
  /\ delivered.op = "useEffect" =>
       /\ ~(TokenPersisted /\ RolePersisted)
       /\ pending = EmptyBag /\ ~loading
  /\ (delivered.kind = "sent" /\ delivered.arg = "restore") =>
       /\ TokenPersisted /\ RolePersisted
       /\ pending = SetToBag({Request("me", "restore")}) /\ loading
  /\ (Settled("me") /\ delivered.arg = "restore" /\ delivered.status = 200) =>
       /\ user = MeResponse(localStorage.access_token)
       /\ user # NoUser
       /\ localStorage.user_role = user.role
  /\ (Settled("me") /\ delivered.arg = "restore" /\ delivered.status # 200) =>
       Anonymous

C18_Witness ==
  /\ Settled("me") /\ delivered.arg = "restore" /\ delivered.status = 200
  /\ user = MeResponse("tok_mia")
  /\ localStorage = [access_token |-> "tok_mia", user_role |-> "mentor"]
  /\ ~loading

\* C19 as stated: within a document, the session state changes only by
\* the start-up effect (Unknown to Restoring or Anonymous), by the answer
\* to the restoration request (Restoring to Authenticated on success, to
\* Anonymous on failure), by a successful login (Anonymous to
\* Authenticated), and by logout or a 401 (Authenticated to Anonymous); a
\* response to a request sent before a logout changes nothing.
C19_OnlyListedTransitions ==
  [][(SessionState' # SessionState /\ delivered'.op \notin NewDocument)
       => \/ /\ SessionState = "Unknown"
             /\ SessionState' \in {"Restoring", "Anonymous"}
          \/ /\ SessionState = "Restoring"
             /\ delivered'.kind = "settled" /\ delivered'.op = "me"
             /\ IF delivered'.status = 200
                THEN SessionState' \in Authenticated
                ELSE SessionState' = "Anonymous"
          \/ /\ SessionState = "Anonymous"
             /\ delivered'.kind = "settled" /\ delivered'.op = "login"
             /\ delivered'.status = 200 /\ ~delivered'.superseded
             /\ SessionState' \in Authenticated
          \/ /\ SessionState \in Authenticated
             /\ SessionState' = "Anonymous"
             /\ \/ delivered'.op = "logout"
                \/ delivered'.kind = "settled" /\ delivered'.status = 401]_vars

\* C20 as stated: a register operation leaves identity, access_token and
\* user_role as they were; on success it navigates to /login, on failure
\* it propagates the error and navigates nowhere.
C20_RegisterChangesNothing ==
  [][(delivered'.kind = "settled" /\ delivered'.op = "signup")
       => /\ UNCHANGED <<user, localStorage>>
          /\ IF delivered'.status = 200
             THEN ~delivered'.rejected /\ location' = "/login"
             ELSE delivered'.rejected /\ location' = location]_vars

\* C20 amended: a register operation leaves the identity as it was; on
\* success access_token and user_role are unchanged and it navigates to
\* /login; on failure it propagates the error and navigates nowhere, and
\* access_token and user_role are unchanged unless the status is 401, when
\* both are removed and a navigation to /login is started by the adapter.
C20_RegisterAmended ==
  [][(delivered'.kind = "settled" /\ delivered'.op = "signup")
       => /\ user' = user
          /\ IF delivered'.status = 200
             THEN /\ ~delivered'.rejected /\ location' = "/login"
                  /\ UNCHANGED <<localStorage, href>>
             ELSE /\ delivered'.rejected /\ location' = location
                  /\ IF delivered'.status = 401
                     THEN localStorage' = Cleared /\ href' = "/login"
                     ELSE UNCHANGED <<localStorage, href>>]_vars

C20_Witness ==
  /\ Settled("signup") /\ delivered.status = 401 /\ delivered.rejected
  /\ user = MeResponse("tok_sam")
  /\ localStorage = Cleared
  /\ location = "/recruiter-dashboard" /\ href = "/login"

\* The failures that are neither an authorization nor a permission failure.
OtherFailures == {400, 404, 422, 500, 0}

C22_BearerOfPersistedToken ==
  delivered.kind = "sent" =>
    /\ TokenPersisted =>
         delivered.auth = [scheme |-> "Bearer",
                           token |-> localStorage.access_token]
    /\ ~TokenPersisted => delivered.auth = NoAuth
    /\ delivered.op = "me" =>
         \E req \in InFlight :
           /\ req.op = "me" /\ req.arg = delivered.arg
           /\ req.bearer = localStorage.access_token

C22_Witness ==
  /\ delivered.kind = "sent" /\ delivered.op = "signup"
  /\ localStorage.access_token = "tok_alex"
  /\ delivered.auth = [scheme |-> "Bearer", token |-> "tok_alex"]

\* C23: a request for a route that matches none of the defined routes is
\* redirected to / and ends at the default of the session: the own
\* dashboard for an authenticated user with one of the three roles, the
\* login view at /login for an anonymous visitor.
C23_UnmatchedRouteEndsAtDefault ==
  ~loading =>
    /\ AppRoutes("/other") = Navigate("/")
    /\ (isAuthenticated /\ user.role \in Roles)
         => Resolve("/other") = OwnDashboard(user.role)
    /\ Anonymous => Resolve("/other") = LoginView

C23_Witness ==
  /\ ~loading /\ isAuthenticated /\ isStudent
  /\ location = "/other"
  /\ Rendered = Navigate("/")
  /\ Resolve(location) = [path |-> "/student-dashboard",
                          view |-> "student-dashboard"]

\* C24: loading is true until the start-up effect has run and, when it
\* sent the restoration request, until that request is answered; within a
\* document no step makes loading true once it is false.
C24_LoadingOnlyDuringRestoration ==
  /\ [](~mounted => loading)
  /\ [](( mounted /\ loading)
          => pending = SetToBag({[op |-> "me", arg |-> "restore",
                                  bearer |-> localStorage.access_token,
                                  superseded |-> FALSE]}))
  /\ [][(~loading /\ loading') => delivered'.op \in NewDocument]_vars

C24_Witness ==
  /\ Settled("me") /\ delivered.arg = "call" /\ delivered.status = 500
  /\ mounted /\ ~loading
  /\ toast = "Server error. Please try again later."

\* The document was opened after an interrupted login and its first
\* restoration cycle is over: the start-up effect found nothing to restore
\* or the restoration request is answered.
RestoredAfterInterrupt ==
  delivered.interrupted # "no" /\ mounted /\ ~loading

\* C25 as stated: when a successful login is interrupted between its
\* writes, then after the next start and one restoration cycle either the
\* identity is non-null and user_role is its role, or the identity is null
\* and neither access_token nor user_role is persisted.
C25_ConsistentAfterInterruptedLogin ==
  RestoredAfterInterrupt
    => \/ user # NoUser /\ localStorage.user_role = user.role
       \/ user = NoUser /\ localStorage = Cleared

\* C25 amended: when a successful login is interrupted between its writes,
\* then after the next start and one restoration cycle either the identity
\* is non-null and user_role is its role, or the identity is null and no
\* user_role is persisted; an access_token stays persisted with a null
\* identity only when the interruption came before user_role was written
\* and no user_role was persisted.
C25_InterruptedLoginAmended ==
  RestoredAfterInterrupt
    => \/ user # NoUser /\ localStorage.user_role = user.role
       \/ user = NoUser /\ localStorage = Cleared
       \/ /\ user = NoUser /\ ~RolePersisted /\ TokenPersisted
          /\ delivered.interrupted = "access_token"
          /\ delivered.op = "useEffect"

C25_Witness ==
  /\ RestoredAfterInterrupt
  /\ delivered.interrupted = "access_token"
  /\ Settled("me") /\ delivered.status = 200
  /\ user = MeResponse("tok_sam")
  /\ localStorage = [access_token |-> "tok_sam", user_role |-> "recruiter"]

\* The notifications of a failure.
ErrorToasts ==
  {"Session expired. Please login again.", "detail || Permission denied",
   "Invalid input data", "Server error. Please try again later.",
   "detail || An error occurred",
   "Network error. Please check your connection."}

\* C26: when a request has failed, with any error status or with no
\* response, a notification of the failure is on screen by the time the
\* caller has the rejection.
C26_EveryFailureNotified ==
  (delivered.kind = "settled" /\ delivered.status # 200)
    => /\ toast \in ErrorToasts
       /\ toast = ResponseError(delivered.status, localStorage, href).toast

C26_Witness ==
  /\ Settled("signup") /\ delivered.status = 0 /\ delivered.rejected
  /\ toast = "Network error. Please check your connection."

\* C27 as stated: with loading false, in every session and for every
\* requested route, the redirects end in a rendered view without a route
\* visited twice.
C27_RedirectsEnd ==
  ~loading => \A p \in Paths : Resolve(p).view # "loop"

\* C28: the dashboard of a role is rendered, at whatever route, only when
\* loading is false, the identity is non-null, an access_token is
\* persisted and the identity's role is that role; no two of isStudent,
\* isRecruiter and isMentor are true together.
C28_DashboardOnlyForItsRole ==
  /\ \A r \in Roles, p \in Paths :
       AppRoutes(p) = View(r \o "-dashboard")
         => /\ ~loading
            /\ user # NoUser
            /\ TokenPersisted
            /\ user.role = r
  /\ ~(isStudent /\ isRecruiter)
  /\ ~(isStudent /\ isMentor)
  /\ ~(isRecruiter /\ isMentor)

C28_Witness ==
  /\ Rendered = View("mentor-dashboard")
  /\ location = "/mentor-dashboard"
  /\ ~loading /\ user = MeResponse("tok_mia")
  /\ localStorage.access_token = "tok_mia"
  /\ isMentor /\ ~isStudent /\ ~isRecruiter

\* C30 as stated: no step of login, logout, getCurrentUser or the 401
\* handling leaves one of access_token and user_role persisted without
\* the other, when they were persisted or absent together before it.
C30_KeysPersistedTogether ==
  [][((TokenPersisted <=> RolePersisted) /\ delivered'.op # "interrupt")
       => (TokenPersisted' <=> RolePersisted')]_vars

\* The account an access token was issued to.
AccountOf(token) == MeResponse(token).email

\* C29 as stated: whenever the identity is non-null, the access_token
\* persisted, if any, was issued to the identity's account and the
\* user_role persisted, if any, is the identity's role, whatever the order
\* in which concurrent login and GET /auth/me requests complete.
C29_SameAccount ==
  user # NoUser
    => /\ TokenPersisted => AccountOf(localStorage.access_token) = user.email
       /\ RolePersisted => localStorage.user_role = user.role

\* C31 as stated: when the start-up effect finds exactly one of
\* access_token and user_role persisted, it sends no request and leaves
\* loading false, the identity null and neither key persisted; and
\* whenever it leaves the identity null without sending a request, no
\* access_token is persisted.
C31_LoneKeyStartsAnonymous ==
  [][(~mounted /\ mounted')
       => /\ (TokenPersisted # RolePersisted)
               => /\ pending' = EmptyBag /\ delivered'.kind = "step"
                  /\ ~loading' /\ user' = NoUser
                  /\ localStorage' = Cleared
          /\ (~loading' /\ user' = NoUser) => ~TokenPersisted']_vars

\* C31 amended: when the start-up effect finds exactly one of access_token
\* and user_role persisted, it sends no request and leaves loading false
\* and the identity null, and the persisted key stays persisted.
C31_LoneKeyAmended ==
  [][(~mounted /\ mounted' /\ TokenPersisted # RolePersisted)
       => /\ pending' = EmptyBag /\ delivered'.kind = "step"
          /\ ~loading' /\ user' = NoUser
          /\ localStorage' = localStorage]_vars

C31_Witness ==
  /\ delivered.op = "useEffect" /\ mounted /\ ~loading
  /\ user = NoUser /\ pending = EmptyBag
  /\ localStorage = [access_token |-> NULL, user_role |-> "student"]

\* C32: when every restoration request is answered, loading becomes false
\* after every start; and at the step that makes it false the session is
\* authenticated (identity non-null, access_token persisted) or the
\* identity is null.
C32_RestorationTerminates ==
  /\ loading ~> ~loading
  /\ [][(loading /\ ~loading')
          => \/ isAuthenticated' /\ localStorage'.user_role = user'.role
             \/ user' = NoUser /\ ~isAuthenticated']_vars

C32_Witness ==
  /\ Settled("me") /\ delivered.arg = "restore" /\ delivered.status = 0
  /\ mounted /\ ~loading
  /\ Anonymous /\ location = "/"
  /\ toast = "Network error. Please check your connection."

\* The login requests in flight.
LoginsInFlight ==
  BagCardinality([req \in {r \in InFlight : r.op = "login"} |-> pending[req]])

====
